---- MODULE Spec2Model ----
(***************************************************************************)
(* Model of the pull-request comment managers of scripts/:                 *)
(*   manage-pr-comment.py          PRCommentManager                        *)
(*   manage-compliance-comment.py  ComplianceCommentManager                *)
(*   manage-security-comment.py    SecurityCheckCommentManager             *)
(*                                                                         *)
(* Text is a sequence of tokens.  A token is an indivisible piece of text: *)
(* a newline, an anchor the code searches for, a fixed piece of a          *)
(* template, or one unit of caller-supplied text.  Python's "in", find,    *)
(* startswith, replace, split, strip and slicing are computed on token     *)
(* sequences.  Positions are 1-based and 0 stands for Python's -1.         *)
(***************************************************************************)
EXTENDS Integers, Sequences, FiniteSets, TLC

----------------------------------------------------------------------------
(* Tokens the code searches for or emits.                                  *)

NL == "\n"

TIMELINE_HEADER == "### Deployment Timeline"

RULE == "---"

FOOTER_HINT == "(i) *"

ENTRY_SEP == " - "

IN_PROGRESS == "ORANGE"

COMPLETED == "GREEN"

FAILED == "RED"

WAITING == "YELLOW"

PROCESSING == "BLUE"

BACKTICK == "<backtick>"

BACKSLASH == "<backslash>"

Whitespace == {" ", "\t", NL, "\r"}

\* Characters removed by the class [\x00-\x08\x0B-\x0C\x0E-\x1F\x7F].
ControlChars == {"<0x00>", "<0x07>", "<0x0B>", "<0x1B>", "<0x7F>"}

\* Tokens whose first non-blank character is a dash.
DashTokens == {"- **", "- ", RULE, ENTRY_SEP, "-"}

----------------------------------------------------------------------------
(* Python string primitives on token sequences.                            *)

Min(a, b) == IF a < b THEN a ELSE b

Take(s, n) == SubSeq(s, 1, Min(Len(s), n))

Drop(s, n) == SubSeq(s, n + 1, Len(s))

MatchAt(s, p, i) == i + Len(p) - 1 <= Len(s) /\ SubSeq(s, i, i + Len(p) - 1) = p

StartsWith(s, p) == MatchAt(s, p, 1)

Find(s, p, start) ==
    LET hits == {i \in start..(Len(s) - Len(p) + 1) :
                    p = <<>> \/ (s[i] = p[1] /\ MatchAt(s, p, i))}
    IN  IF hits = {} THEN 0 ELSE CHOOSE i \in hits : \A j \in hits : i <= j

Contains(s, p) == Find(s, p, 1) # 0

\* s[i:].replace(p, r), for a non-empty p: leftmost matches, not overlapping.
RECURSIVE ReplaceFrom(_, _, _, _)
ReplaceFrom(s, p, r, i) ==
    IF i > Len(s) THEN <<>>
    ELSE IF s[i] = p[1] /\ MatchAt(s, p, i) THEN r \o ReplaceFrom(s, p, r, i + Len(p))
    ELSE <<s[i]>> \o ReplaceFrom(s, p, r, i + 1)

ReplaceAll(s, p, r) == IF Contains(s, p) THEN ReplaceFrom(s, p, r, 1) ELSE s

RECURSIVE Split(_, _)
Split(s, sep) ==
    LET i == Find(s, <<sep>>, 1)
    IN  IF i = 0 THEN <<s>> ELSE <<SubSeq(s, 1, i - 1)>> \o Split(Drop(s, i), sep)

RECURSIVE Join(_, _)
Join(lines, sep) ==
    IF lines = <<>> THEN <<>>
    ELSE IF Len(lines) = 1 THEN lines[1]
    ELSE lines[1] \o <<sep>> \o Join(Tail(lines), sep)

RECURSIVE LStrip(_)
LStrip(s) == IF s # <<>> /\ Head(s) \in Whitespace THEN LStrip(Tail(s)) ELSE s

RECURSIVE RStrip(_)
RStrip(s) ==
    IF s # <<>> /\ s[Len(s)] \in Whitespace THEN RStrip(SubSeq(s, 1, Len(s) - 1)) ELSE s

Strip(s) == RStrip(LStrip(s))

\* line.strip().startswith(dash)
LineStartsWithDash(line) == LET t == Strip(line) IN t # <<>> /\ t[1] \in DashTokens

\* dict.get(key, default)
Get(data, key, default) == IF key \in DOMAIN data THEN data[key] ELSE default

----------------------------------------------------------------------------
(* PRCommentManager: constants, marker, sanitizers, stage validation.      *)

COMMENT_MARKER_BASE == "sgex-deployment-status-comment"

ALLOWED_STAGES ==
    {"started", "setup", "building", "deploying", "verifying", "success", "failure",
     "pages-built", "security-check", "rate-limit-waiting", "rate-limit-complete"}

\* Units of an action id that the class [a-zA-Z0-9\-_] keeps.
SafeIdChars == {"a", "b", "r", "1", "2", "-", "_"}

MaxActionIdLen == 50

ShaShortLen == 7

\* A marker that leaves the action id out.
comment_marker_base_only(action_id) == <<"<!-- ", COMMENT_MARKER_BASE, " -->">>

\* __init__: the action-specific marker.  A falsy action_id (None, "") is <<>>.
comment_marker(action_id) ==
    IF action_id # <<>>
    THEN <<"<!-- ", COMMENT_MARKER_BASE, ":">>
         \o Take(SelectSeq(action_id, LAMBDA c : c \in SafeIdChars), MaxActionIdLen)
         \o <<" -->">>
    ELSE <<"<!-- ", COMMENT_MARKER_BASE, " -->">>

\* A sanitizer that leaves backticks as they are.
sanitize_string_unescaped(value, max_length) ==
    LET cut == Take(value, max_length)
    IN  SelectSeq(cut, LAMBDA c : c \notin ControlChars)

\* sanitize_string: cut to max_length, drop the control characters of the
\* class, put a backslash before every backtick.
sanitize_string(value, max_length) ==
    LET cut   == Take(value, max_length)
        clean == SelectSeq(cut, LAMBDA c : c \notin ControlChars)
    IN  ReplaceAll(clean, <<BACKTICK>>, <<BACKSLASH, BACKTICK>>)

\* Units matched by [a-zA-Z0-9\-]+ in the github.io host label.
LabelToks == {"owner", "a", "b", "1", "-"}

UrlAllowed(url) ==
    /\ Len(url) >= 2
    /\ url[1] = "https://"
    /\ \/ url[2] = "github.com/"
       \/ \E k \in 3..Len(url) :
              /\ url[k] = ".github.io/"
              /\ \A j \in 2..(k - 1) : url[j] \in LabelToks

\* A sanitizer that looks for the GitHub host anywhere in the url.
sanitize_url_anywhere(url) == IF Contains(url, <<"github.com/">>) THEN url ELSE <<>>

sanitize_url(url) == IF UrlAllowed(url) THEN url ELSE <<>>

\* str.lower() on the cased tokens that occur in stage arguments.
LowerMap ==
    [t \in {"Started", "STARTED", "Building", "Success", "FAILURE", "Deploy"} |->
        CASE t = "Started"  -> "started"
          [] t = "STARTED"  -> "started"
          [] t = "Building" -> "building"
          [] t = "Success"  -> "success"
          [] t = "FAILURE"  -> "failure"
          [] t = "Deploy"   -> "deploy"]

lower(s) == [i \in DOMAIN s |-> IF s[i] \in DOMAIN LowerMap THEN LowerMap[s[i]] ELSE s[i]]

\* A validation that compares the argument as given, without lower() and
\* strip().
validate_stage_as_given(stage) ==
    IF Len(stage) = 1 /\ stage[1] \in ALLOWED_STAGES THEN stage ELSE <<>>

\* validate_stage: the normalised stage, or <<>> where the code raises ValueError.
\* (An allowed stage is one token; a stripped argument of several tokens is
\* not in ALLOWED_STAGES.)
validate_stage(stage) ==
    LET norm == Strip(lower(stage))
    IN  IF Len(norm) = 1 /\ norm[1] \in ALLOWED_STAGES THEN norm ELSE <<>>

----------------------------------------------------------------------------
(* PRCommentManager: timeline carry-forward.                               *)

\* extract_timeline_from_comment: from the first header to the first
\* newline-rule after it (else the footer hint, else the end), stripped.
extract_timeline_from_comment(comment_body) ==
    LET timeline_start == Find(comment_body, <<TIMELINE_HEADER>>, 1)
        search_start   == timeline_start + 1
        rule_end       == Find(comment_body, <<NL, RULE>>, search_start)
        timeline_end   == IF rule_end # 0 THEN rule_end
                          ELSE Find(comment_body, <<FOOTER_HINT>>, search_start)
    IN  IF timeline_start = 0 THEN <<>>
        ELSE IF timeline_end = 0 THEN Drop(comment_body, timeline_start - 1)
        ELSE Strip(SubSeq(comment_body, timeline_start, timeline_end - 1))

\* A carry-forward that leaves the glyphs as they are.
update_timeline_status_kept(existing_timeline, current_stage) == existing_timeline

\* update_timeline_status: every " - (in progress) " becomes " - (completed) ".
update_timeline_status(existing_timeline, current_stage) ==
    IF existing_timeline = <<>> THEN <<>>
    ELSE ReplaceAll(existing_timeline, <<ENTRY_SEP, IN_PROGRESS, " ">>,
                    <<ENTRY_SEP, COMPLETED, " ">>)

\* [line for line in existing_timeline.split('\n') if line.strip().startswith('-')]
timeline_lines(existing_timeline) ==
    SelectSeq(Split(existing_timeline, NL), LineStartsWithDash)

\* update_comment's own count of the entries it carries forward.
entry_count(existing_timeline) == Len(timeline_lines(existing_timeline))

----------------------------------------------------------------------------
(* PRCommentManager: rendering.                                            *)

stage_to_line(stage) ==
    CASE stage = "started"   -> "125"
      [] stage = "setup"     -> "203"
      [] stage = "building"  -> "222"
      [] stage = "deploying" -> "361"
      [] stage = "verifying" -> "673"
      [] stage = "success"   -> "770"
      [] stage = "failure"   -> "784"
      [] OTHER               -> ""

stage_to_name(stage) ==
    CASE stage = "started"     -> "Build Started"
      [] stage = "setup"       -> "Environment Setup Complete"
      [] stage = "building"    -> "Building Application"
      [] stage = "deploying"   -> "Deploying to GitHub Pages"
      [] stage = "verifying"   -> "Verifying Deployment"
      [] stage = "success"     -> "Successfully Deployed"
      [] stage = "failure"     -> "Deployment Failed"
      [] stage = "pages-built" -> "GitHub Pages Built"
      [] OTHER                 -> stage

get_workflow_step_link(stage, commit_sha) ==
    IF stage_to_line(stage) # "" /\ commit_sha # <<>> /\ commit_sha # <<"unknown">>
    THEN <<"[", stage_to_name(stage), "](https://github.com/owner/repo/blob/">>
         \o commit_sha
         \o <<"/.github/workflows/branch-deployment.yml#L", stage_to_line(stage), ")">>
    ELSE <<stage_to_name(stage)>>

event_display(event_name) ==
    CASE event_name = "push"              -> "Push"
      [] event_name = "pull_request"      -> "Pull Request"
      [] event_name = "workflow_dispatch" -> "Manual Trigger"
      [] event_name = "workflow_call"     -> "Workflow Call"
      [] event_name = "schedule"          -> "Scheduled"
      [] event_name = "unknown"           -> "(gear) Unknown"
      [] OTHER                            -> "(gear) Other Event"

\* The security-check stage reads the report file named by the payload.
security_comment(file) ==
    IF file.exists THEN file.text ELSE <<"Security check results not available">>

security_icon(sec) ==
    IF Contains(sec, <<"ISSUES FOUND">>) \/ Contains(sec, <<"ACTION REQUIRED">>) THEN FAILED
    ELSE IF Contains(sec, <<"WARNINGS">>) THEN WAITING
    ELSE COMPLETED

security_text(sec) ==
    IF Contains(sec, <<"ISSUES FOUND">>) \/ Contains(sec, <<"ACTION REQUIRED">>)
    THEN "Security issues detected"
    ELSE IF Contains(sec, <<"WARNINGS">>) THEN "Security warnings"
    ELSE "Security checks passed"

InProgressStages == {"started", "setup", "building", "deploying", "verifying"}

status_icon(stage, sec) ==
    CASE stage \in InProgressStages                      -> IN_PROGRESS
      [] stage \in {"pages-built", "success", "rate-limit-complete"} -> COMPLETED
      [] stage = "security-check"                        -> security_icon(sec)
      [] stage = "failure"                               -> FAILED
      [] stage = "rate-limit-waiting"                    -> WAITING
      [] OTHER                                           -> PROCESSING

status_line(stage, sec) ==
    CASE stage = "started"             -> <<"<h2>Deployment Status: Build Started</h2>">>
      [] stage = "setup"               -> <<"<h2>Deployment Status: Setting Up Environment</h2>">>
      [] stage = "building"            -> <<"<h2>Deployment Status: Building Application</h2>">>
      [] stage = "deploying"           -> <<"<h2>Deployment Status: Deploying to GitHub Pages</h2>">>
      [] stage = "verifying"           -> <<"<h2>Deployment Status: Verifying Deployment</h2>">>
      [] stage = "pages-built"         -> <<"<h2>Deployment Status: GitHub Pages Built</h2>">>
      [] stage = "security-check"      -> <<"<h2>Security Check Status: ", security_text(sec), " ",
                                            security_icon(sec), "</h2>">>
      [] stage = "success"             -> <<"<h2>Deployment Status: Successfully Deployed</h2>">>
      [] stage = "failure"             -> <<"<h2>Deployment Status: Failed</h2>">>
      [] stage = "rate-limit-waiting"  -> <<"<h2>Copilot Rate Limit Handler: Waiting</h2>">>
      [] stage = "rate-limit-complete" -> <<"<h2>Copilot Rate Limit Handler: Complete</h2>">>
      [] OTHER                         -> <<"<h2>Deployment Status: In Progress</h2>">>

status_text(stage, sec) ==
    CASE stage = "started"             -> "Initializing build process"
      [] stage = "setup"               -> "Installing dependencies and configuring environment"
      [] stage = "building"            -> "Compiling and bundling application code"
      [] stage = "deploying"           -> "Pushing build artifacts to gh-pages branch"
      [] stage = "verifying"           -> "Checking deployment accessibility"
      [] stage = "pages-built"         -> "Pages content deployed, site building"
      [] stage = "security-check"      -> security_text(sec)
      [] stage = "success"             -> "Live and accessible"
      [] stage = "failure"             -> "Deployment failed"
      [] stage = "rate-limit-waiting"  -> "Waiting for rate limit to reset"
      [] stage = "rate-limit-complete" -> "Wait complete, triggering Copilot retry"
      [] OTHER                         -> "Processing"

next_step(stage, wait_info) ==
    CASE stage = "started"             -> <<"**Next:** Installing dependencies and setting up environment">>
      [] stage = "setup"               -> <<"**Next:** Building React application">>
      [] stage = "building"            -> <<"**Next:** Deploying to GitHub Pages">>
      [] stage = "deploying"           -> <<"**Next:** Verifying deployment accessibility">>
      [] stage = "verifying"           -> <<"**Next:** Deployment complete or failure reported">>
      [] stage = "pages-built"         -> <<"**Status:** Site is live and accessible">>
      [] stage = "security-check"      -> <<"**Status:** Security scan completed">>
      [] stage = "success"             -> <<"**Status:** Deployment complete - site is ready for testing">>
      [] stage = "failure"             -> <<"**Action Required:** Fix issues and retry deployment">>
      [] stage = "rate-limit-waiting"  -> <<"**Status:** ">> \o wait_info
      [] stage = "rate-limit-complete" -> <<"**Status:** Done waiting! Copilot retry command posted.">>
      [] OTHER                         -> <<"**Status:** Processing deployment">>

logs_button(workflow_url, badge) ==
    <<"<a href=">> \o workflow_url \o <<"><img ", badge, "/></a>">>

preview_hint(stage) ==
    CASE stage = "deploying" -> "_(deploying...)_"
      [] stage = "verifying" -> "_(verifying...)_"
      [] OTHER               -> "_(will be live after deployment)_"

actions(stage, workflow_url, branch_url, error_message, remaining_minutes, sec) ==
    CASE stage \in InProgressStages ->
            <<"<h3>Quick Actions</h3>", NL, NL>> \o logs_button(workflow_url, "Build_Logs")
            \o (IF branch_url # <<>>
                THEN <<NL>> \o logs_button(branch_url, "Preview_URL") \o <<" ", preview_hint(stage)>>
                ELSE <<>>)
      [] stage = "pages-built" ->
            <<"<h3>Quick Actions</h3>", NL, NL>> \o logs_button(branch_url, "Preview_URL")
            \o <<NL>> \o logs_button(workflow_url, "Build_Logs")
      [] stage = "security-check" ->
            <<"<h3>Security Report</h3>", NL, NL>> \o sec
            \o <<NL, NL, "<h3>Quick Actions</h3>", NL, NL>> \o logs_button(workflow_url, "Build_Logs")
      [] stage = "success" ->
            <<"<h3>Preview URLs</h3>", NL, NL>> \o logs_button(branch_url, "Open_Branch_Preview")
            \o <<NL, NL, "<h3>Quick Actions</h3>", NL, NL>> \o logs_button(workflow_url, "Build_Logs")
      [] stage = "failure" ->
            <<"<h3>Quick Actions</h3>", NL, NL>> \o logs_button(workflow_url, "Error_Logs")
            \o <<NL, NL, "**Error:** ">> \o error_message
      [] stage = "rate-limit-waiting" ->
            <<"<h3>Quick Actions</h3>", NL, NL>> \o logs_button(workflow_url, "Handler_Logs")
            \o <<NL, NL, "**Info:** Copilot rate limit detected.", NL, "**Remaining time:** ">>
            \o remaining_minutes \o <<" minutes">>
      [] stage = "rate-limit-complete" ->
            <<"<h3>Quick Actions</h3>", NL, NL>> \o logs_button(workflow_url, "Handler_Logs")
            \o <<NL, NL, "**Result:** Rate limit wait completed successfully.">>
      [] OTHER ->
            <<"<h3>Quick Actions</h3>", NL, NL>> \o logs_button(workflow_url, "Build_Logs")

entry_head(timestamp, glyph) == <<"- **", timestamp, "**", ENTRY_SEP, glyph, " ">>

timeline_entry(stage, timestamp, step_link, error_message, remaining_minutes, sec) ==
    CASE stage = "started" ->
            entry_head(timestamp, IN_PROGRESS) \o step_link \o <<" - Initializing">>
      [] stage \in {"setup", "building", "deploying", "verifying"} ->
            entry_head(timestamp, IN_PROGRESS) \o step_link \o <<" - In progress">>
      [] stage = "pages-built" ->
            entry_head(timestamp, COMPLETED) \o step_link \o <<" - Complete">>
      [] stage = "security-check" ->
            entry_head(timestamp, security_icon(sec))
            \o <<"Security Check - ", security_text(sec)>>
      [] stage = "success" ->
            entry_head(timestamp, COMPLETED) \o step_link \o <<" - Site is live">>
      [] stage = "failure" ->
            entry_head(timestamp, FAILED) \o step_link \o <<" - Failed: ">> \o error_message
      [] stage = "rate-limit-waiting" ->
            entry_head(timestamp, WAITING) \o <<"Waiting for rate limit - ">>
            \o remaining_minutes \o <<" minutes remaining">>
      [] stage = "rate-limit-complete" ->
            entry_head(timestamp, COMPLETED)
            \o <<"Rate limit handler complete - Copilot retry triggered">>
      [] OTHER ->
            <<"- **", timestamp, "**", ENTRY_SEP, PROCESSING, " Processing">>

timeline_section_unfiltered(existing_timeline, entry) ==
    <<TIMELINE_HEADER, NL, NL>>
    \o (IF existing_timeline # <<>> THEN existing_timeline \o <<NL>> ELSE <<>>)
    \o entry \o <<NL>>

\* "Build timeline section": header, the carried entry lines, the new entry.
timeline_section(existing_timeline, entry) ==
    <<TIMELINE_HEADER, NL, NL>>
    \o (IF existing_timeline # <<>>
        THEN Join(timeline_lines(existing_timeline), NL) \o <<NL>>
        ELSE <<>>)
    \o entry \o <<NL>>

preamble(self, short, workflow_url, commit_url, step_link) ==
    <<"<h3>Deployment Information</h3>", NL, NL, "**Workflow:** ">> \o self.workflow_name
    \o <<" (", event_display(self.event_name), ")  ", NL, "**Action ID:** [">>
    \o (IF self.action_id # <<>> THEN self.action_id ELSE <<"N/A">>)
    \o <<"](">> \o workflow_url \o <<")  ", NL, "**Commit:** [<code>">> \o short
    \o <<"</code>](">> \o commit_url \o <<") ([view changes](">>
    \o ReplaceAll(commit_url, <<"/commit/">>, <<"/commits/">>)
    \o <<"))  ", NL, "**Workflow Step:** ">> \o step_link \o <<NL>>

\* An assembly that puts the status line above the marker.
complete_comment_status_first(marker, statusline, pre, acts, branch_name, branch_url, icon, text, next, section) ==
    statusline \o <<NL>> \o marker \o <<NL, NL>> \o pre \o <<NL, NL>> \o acts
    \o <<NL, NL, RULE, NL, NL, "<h3>Overall Progress</h3>", NL, NL, "**Branch:** [<code>">>
    \o branch_name \o <<"</code>](">> \o branch_url
    \o <<")  ", NL, "**Status:** ", icon, " ", text, "  ", NL>> \o next \o <<NL>>
    \o <<NL, RULE, NL, NL>> \o section
    \o <<NL, RULE, NL, NL, FOOTER_HINT,
         "This comment is automatically updated as the deployment progresses.*", NL>>

\* "Build complete comment with action-specific marker".
complete_comment(marker, statusline, pre, acts, branch_name, branch_url, icon, text, next, section) ==
    marker \o <<NL>> \o statusline \o <<NL, NL>> \o pre \o <<NL, NL>> \o acts
    \o <<NL, NL, RULE, NL, NL, "<h3>Overall Progress</h3>", NL, NL, "**Branch:** [<code>">>
    \o branch_name \o <<"</code>](">> \o branch_url
    \o <<")  ", NL, "**Status:** ", icon, " ", text, "  ", NL>> \o next \o <<NL>>
    \o <<NL, RULE, NL, NL>> \o section
    \o <<NL, RULE, NL, NL, FOOTER_HINT,
         "This comment is automatically updated as the deployment progresses.*", NL>>

\* The timeline entry build_comment_body appends for this call.
new_entry(stage, data, timestamp, file) ==
    LET commit_sha == sanitize_string(Get(data, "commit_sha", <<"unknown">>), 40)
        sec        == IF stage = "security-check" THEN security_comment(file) ELSE <<>>
        error_message == IF stage = "failure"
                         THEN sanitize_string(Get(data, "error_message", <<"Unknown error">>), 200)
                         ELSE <<>>
        remaining  == sanitize_string(Get(data, "remaining_minutes", <<"unknown">>), 10)
    IN  timeline_entry(stage, timestamp, get_workflow_step_link(stage, commit_sha),
                       error_message, remaining, sec)

\* What build_comment_body yields where the code raises RuntimeError.
RuntimeError == <<"<RuntimeError>">>

\* build_comment_body.  self is the manager (action_id, commit_sha,
\* workflow_name, event_name); timestamp and file are what the clock and the
\* file system give the call.
build_comment_body(self, stage, data, existing_timeline, timestamp, file) ==
    LET commit_sha   == sanitize_string(Get(data, "commit_sha", <<"unknown">>), 40)
        short        == Take(commit_sha, ShaShortLen)
        branch_name  == sanitize_string(Get(data, "branch_name", <<"unknown">>), 100)
        commit_url   == sanitize_url(Get(data, "commit_url", <<>>))
        workflow_url == sanitize_url(Get(data, "workflow_url", <<>>))
        branch_url   == sanitize_url(Get(data, "branch_url", <<>>))
        carried      == IF existing_timeline # <<>>
                        THEN update_timeline_status(existing_timeline, stage)
                        ELSE existing_timeline
        step_link    == get_workflow_step_link(stage, commit_sha)
        sec          == IF stage = "security-check" THEN security_comment(file) ELSE <<>>
        error_message == IF stage = "failure"
                         THEN sanitize_string(Get(data, "error_message", <<"Unknown error">>), 200)
                         ELSE IF stage = "rate-limit-waiting"
                         THEN sanitize_string(Get(data, "error_message",
                                  <<"Waiting for rate limit to reset">>), 300)
                         ELSE <<>>
        remaining    == sanitize_string(Get(data, "remaining_minutes", <<"unknown">>), 10)
        entry        == new_entry(stage, data, timestamp, file)
        comment      == complete_comment(comment_marker(self.action_id),
                            status_line(stage, sec),
                            preamble(self, short, workflow_url, commit_url, step_link),
                            actions(stage, workflow_url, branch_url, error_message, remaining, sec),
                            branch_name, branch_url,
                            status_icon(stage, sec), status_text(stage, sec),
                            next_step(stage, error_message),
                            timeline_section(carried, entry))
    IN  IF ~StartsWith(comment, comment_marker(self.action_id)) THEN RuntimeError ELSE comment

----------------------------------------------------------------------------
(* PRCommentManager: the remote comment list and update_comment.           *)

\* The first of the positions that pass the test, 0 if none passes
\* (the "for comment in comments: if ...: return comment" loops).
FirstIndex(hits) ==
    IF hits = {} THEN 0 ELSE CHOOSE i \in hits : \A j \in hits : i <= j

\* get_existing_comment: a failed GET is caught and answered with None (0).
get_existing_comment_last(marker, remote, read_ok) ==
    LET hits == {i \in 1..Len(remote) : Contains(remote[i].body, marker)}
    IN  IF ~read_ok \/ hits = {} THEN 0
        ELSE CHOOSE i \in hits : \A j \in hits : j <= i

get_existing_comment(marker, remote, read_ok) ==
    IF ~read_ok THEN 0
    ELSE FirstIndex({i \in 1..Len(remote) : Contains(remote[i].body, marker)})

\* A duplicate check that issues its GET whatever the commit.
duplicate_check_reads_always(self) == TRUE

\* check_duplicate_comment_for_commit issues its GET only for a known commit.
duplicate_check_reads(self) == self.commit_sha # <<>> /\ self.commit_sha # <<"unknown">>

\* A duplicate check that looks for the commit in the caller's own comment.
check_duplicate_comment_for_commit_own(self, remote, read_ok) ==
    IF ~duplicate_check_reads(self) THEN 0
    ELSE IF ~read_ok THEN 0
    ELSE FirstIndex({i \in 1..Len(remote) :
            /\ Contains(remote[i].body, <<COMMENT_MARKER_BASE>>)
            /\ \/ Contains(remote[i].body, Take(self.commit_sha, ShaShortLen))
               \/ Contains(remote[i].body, self.commit_sha)
            /\ Contains(remote[i].body, comment_marker(self.action_id))})

\* check_duplicate_comment_for_commit: the first comment of another
\* deployment identity that mentions the commit, 0 for None.
check_duplicate_comment_for_commit(self, remote, read_ok) ==
    IF ~duplicate_check_reads(self) THEN 0
    ELSE IF ~read_ok THEN 0
    ELSE FirstIndex({i \in 1..Len(remote) :
            /\ Contains(remote[i].body, <<COMMENT_MARKER_BASE>>)
            /\ \/ Contains(remote[i].body, Take(self.commit_sha, ShaShortLen))
               \/ Contains(remote[i].body, self.commit_sha)
            /\ ~Contains(remote[i].body, comment_marker(self.action_id))})

\* A dispatch that always creates.
dispatch_always_create(existing) == "create"

\* "if existing: PATCH the comment else: POST a new one", the same in
\* the three managers.
dispatch(existing) == IF existing # 0 THEN "update" ELSE "create"

\* The entries one rendering puts in its timeline section: the carried
\* lines, then the new entry (build_comment_body, "Build timeline section").
rendered_entries(self, stage, data, existing_timeline, timestamp, file) ==
    timeline_lines(update_timeline_status(existing_timeline, stage))
    \o <<new_entry(stage, data, timestamp, file)>>

\* update_comment with a guard that short-circuits whatever the stage.
update_comment_guard_every_stage(self, stage_arg, data, listing, scan, net, timestamp, file) ==
    LET valid     == validate_stage(stage_arg)
        stage     == IF valid = <<>> THEN "" ELSE valid[1]
        marker    == comment_marker(self.action_id)
        existing  == IF valid = <<>> THEN 0
                     ELSE get_existing_comment(marker, listing, net.read)
        existing_timeline ==
            IF existing # 0 THEN extract_timeline_from_comment(listing[existing].body) ELSE <<>>
        duplicate == IF valid # <<>> /\ existing = 0
                     THEN check_duplicate_comment_for_commit(self, scan, net.dup) ELSE 0
        body      == build_comment_body(self, stage, data, existing_timeline, timestamp, file)
        skipped   == existing = 0 /\ duplicate # 0
        op        == IF valid = <<>> THEN "invalid"
                     ELSE IF skipped THEN "skip"
                     ELSE IF body = RuntimeError THEN "raise"
                     ELSE dispatch(existing)
        reads     == IF valid = <<>> THEN 0
                     ELSE IF existing = 0 /\ duplicate_check_reads(self) THEN 2 ELSE 1
        wrote     == op \in {"create", "update"}
    IN  [op          |-> op,
         stage       |-> stage,
         existing    |-> existing,
         duplicate   |-> duplicate,
         body        |-> IF wrote THEN body ELSE <<>>,
         entries     |-> IF wrote
                         THEN rendered_entries(self, stage, data, existing_timeline, timestamp, file)
                         ELSE <<>>,
         reads       |-> reads,
         writes      |-> IF wrote THEN 1 ELSE 0,
         read_failed |-> valid # <<>> /\ ~net.read,
         dup_failed  |-> valid # <<>> /\ existing = 0 /\ duplicate_check_reads(self) /\ ~net.dup,
         write_failed |-> wrote /\ ~net.write,
         result      |-> \/ op = "skip"
                         \/ (wrote /\ net.write)]

\* update_comment, as the outcome of one invocation against the comment list
\* remote.  net says which of the three requests succeed; a request that is
\* not issued ignores its flag.
\*   op       "invalid" | "skip" | "raise" | "create" | "update"
\*   existing index of the comment discovery returned, 0 for None
update_comment_requests(self, stage_arg, data, listing, scan, net, timestamp, file) ==
    LET valid     == validate_stage(stage_arg)
        stage     == IF valid = <<>> THEN "" ELSE valid[1]
        marker    == comment_marker(self.action_id)
        existing  == IF valid = <<>> THEN 0
                     ELSE get_existing_comment(marker, listing, net.read)
        existing_timeline ==
            IF existing # 0 THEN extract_timeline_from_comment(listing[existing].body) ELSE <<>>
        duplicate == IF valid # <<>> /\ existing = 0
                     THEN check_duplicate_comment_for_commit(self, scan, net.dup) ELSE 0
        body      == build_comment_body(self, stage, data, existing_timeline, timestamp, file)
        skipped   == existing = 0 /\ duplicate # 0 /\ stage = "started"
        op        == IF valid = <<>> THEN "invalid"
                     ELSE IF skipped THEN "skip"
                     ELSE IF body = RuntimeError THEN "raise"
                     ELSE dispatch(existing)
        reads     == IF valid = <<>> THEN 0
                     ELSE IF existing = 0 /\ duplicate_check_reads(self) THEN 2 ELSE 1
        wrote     == op \in {"create", "update"}
    IN  [op          |-> op,
         stage       |-> stage,
         existing    |-> existing,
         duplicate   |-> duplicate,
         body        |-> IF wrote THEN body ELSE <<>>,
         entries     |-> IF wrote
                         THEN rendered_entries(self, stage, data, existing_timeline, timestamp, file)
                         ELSE <<>>,
         reads       |-> reads,
         writes      |-> IF wrote THEN 1 ELSE 0,
         read_failed |-> valid # <<>> /\ ~net.read,
         dup_failed  |-> valid # <<>> /\ existing = 0 /\ duplicate_check_reads(self) /\ ~net.dup,
         write_failed |-> wrote /\ ~net.write,
         result      |-> \/ op = "skip"
                         \/ (wrote /\ net.write)]

\* The same call reading the listing back to front.
update_comment_reversed(self, stage_arg, data, remote, net, timestamp, file) ==
    update_comment_requests(self, stage_arg, data,
                            [i \in 1..Len(remote) |-> remote[Len(remote) + 1 - i]],
                            remote, net, timestamp, file)

update_comment(self, stage_arg, data, remote, net, timestamp, file) ==
    update_comment_requests(self, stage_arg, data, remote, remote, net, timestamp, file)

----------------------------------------------------------------------------
(* ComplianceCommentManager.                                               *)

COMPLIANCE_MARKER == <<"<!-- ", "sgex-compliance-report-comment", " -->">>

\* int() of the digit runs that occur in issue texts.
DigitValue ==
    [t \in {"0", "1", "2", "3", "5", "12"} |->
        CASE t = "0" -> 0 [] t = "1" -> 1 [] t = "2" -> 2
          [] t = "3" -> 3 [] t = "5" -> 5 [] t = "12" -> 12]

\* re.search(r'(\d+)', text): position of the first digit run, 0 if none.
first_number(text) == FirstIndex({i \in 1..Len(text) : text[i] \in DOMAIN DigitValue})

\* A count that reads the issue text without the except clause: -1 stands
\* for the exception that escapes.
get_layout_count_unguarded(comp) ==
    IF "issues" \notin DOMAIN comp THEN -1
    ELSE IF comp.issues = <<>> THEN -1
    ELSE IF comp.issues[1] = <<"<not a string>">> THEN -1
    ELSE LET k == first_number(comp.issues[1])
         IN  IF k = 0 THEN 0 ELSE DigitValue[comp.issues[1][k]]

\* get_layout_count_for_sorting: KeyError, IndexError and TypeError give 0.
\* A non-string first issue is the token sequence <<"<not a string>">>.
get_layout_count_for_sorting(comp) ==
    IF "issues" \notin DOMAIN comp THEN 0
    ELSE IF comp.issues = <<>> THEN 0
    ELSE IF comp.issues[1] = <<"<not a string>">> THEN 0
    ELSE LET k == first_number(comp.issues[1])
         IN  IF k = 0 THEN 0 ELSE DigitValue[comp.issues[1][k]]

\* sorted(seq, key=get_layout_count_for_sorting, reverse=True): stable.
RECURSIVE insert_desc(_, _)
insert_desc(sorted, comp) ==
    IF sorted = <<>> THEN <<comp>>
    ELSE IF get_layout_count_for_sorting(Head(sorted)) >= get_layout_count_for_sorting(comp)
    THEN <<Head(sorted)>> \o insert_desc(Tail(sorted), comp)
    ELSE <<comp>> \o sorted

RECURSIVE sorted_desc(_)
sorted_desc(seq) ==
    IF seq = <<>> THEN <<>>
    ELSE insert_desc(sorted_desc(SubSeq(seq, 1, Len(seq) - 1)), seq[Len(seq)])

has_issue(comp, phrase) ==
    \E k \in 1..Len(Get(comp, "issues", <<>>)) : Contains(comp.issues[k], <<phrase>>)

ListLimit == 5

compliance_status_text(compliance_pct) ==
    IF compliance_pct >= 90 THEN "Excellent"
    ELSE IF compliance_pct >= 70 THEN "Good"
    ELSE IF compliance_pct >= 50 THEN "Needs Improvement"
    ELSE "Action Required"

compliance_status_badge(compliance_pct) ==
    IF compliance_pct >= 90 THEN "brightgreen"
    ELSE IF compliance_pct >= 70 THEN "green"
    ELSE IF compliance_pct >= 50 THEN "yellow"
    ELSE "orange"

\* round(n / total * 100) if total > 0 else 0; round() rounds halves to even.
round_percentage(n, total) ==
    IF total > 0
    THEN LET q == (100 * n) \div total
             r == (100 * n) % total
         IN  IF 2 * r < total THEN q
             ELSE IF 2 * r > total THEN q + 1
             ELSE IF q % 2 = 0 THEN q ELSE q + 1
    ELSE 0

compliance_footer(non_compliant, partial) ==
    IF non_compliant > 0
    THEN <<"### Action Required", NL, NL, "Fix non-compliant components before merging.", NL, NL>>
    ELSE IF partial > 0
    THEN <<"### Recommendations", NL, NL,
           "Consider addressing partial compliance issues to improve code quality.", NL, NL>>
    ELSE <<"### All Clear!", NL, NL,
           "All components are fully compliant with the framework standards.", NL, NL>>

component_url(commit_sha, comp) ==
    <<"https://github.com/owner/repo/blob/">> \o commit_sha
    \o <<"/src/components/", comp.name, ".js">>

RECURSIVE nested_layout_lines(_, _)
nested_layout_lines(commit_sha, comps) ==
    IF comps = <<>> THEN <<>>
    ELSE LET comp == Head(comps)
             text == comp.issues[1]
             hit  == Find(text, <<"Found", " ">>, 1)
             count_str == IF hit # 0 /\ hit + 2 <= Len(text) /\ text[hit + 2] \in DOMAIN DigitValue
                          THEN text[hit + 2] ELSE "?"
         IN  <<"- ", IN_PROGRESS, " [", comp.name, "](">> \o component_url(commit_sha, comp)
             \o <<") (", count_str, " layouts)", NL>>
             \o nested_layout_lines(commit_sha, Tail(comps))

RECURSIVE plain_lines(_, _)
plain_lines(commit_sha, comps) ==
    IF comps = <<>> THEN <<>>
    ELSE <<"- ", IN_PROGRESS, " [", Head(comps).name, "](">>
         \o component_url(commit_sha, Head(comps)) \o <<")", NL>>
         \o plain_lines(commit_sha, Tail(comps))

RECURSIVE non_compliant_lines(_, _)
non_compliant_lines(commit_sha, comps) ==
    IF comps = <<>> THEN <<>>
    ELSE <<"- ", FAILED, " [", Head(comps).name, "](">>
         \o component_url(commit_sha, Head(comps)) \o <<"): ">>
         \o Join(Get(Head(comps), "issues", <<>>), ", ") \o <<NL>>
         \o non_compliant_lines(commit_sha, Tail(comps))

more_line(n) == IF n > ListLimit THEN <<"- ... and ", ToString(n - ListLimit), " more", NL>> ELSE <<>>

compliance_sections_unsorted(commit_sha, results) ==
    LET partial_comps  == Get(results, "partiallyCompliant", <<>>)
        nested_layouts == SelectSeq(partial_comps, LAMBDA c : has_issue(c, "layout components"))
        missing_layout == SelectSeq(partial_comps, LAMBDA c : has_issue(c, "Missing PageLayout"))
        custom_headers == SelectSeq(partial_comps, LAMBDA c : has_issue(c, "custom header"))
        non_compliant_comps == Get(results, "nonCompliant", <<>>)
    IN  (IF nested_layouts # <<>>
         THEN <<NL, "### Nested Layouts (", ToString(Len(nested_layouts)), " components)", NL, NL>>
              \o nested_layout_lines(commit_sha, Take(nested_layouts, ListLimit))
              \o more_line(Len(nested_layouts))
         ELSE <<>>)
        \o (IF missing_layout # <<>>
            THEN <<NL, "### Missing PageLayout (", ToString(Len(missing_layout)), " components)", NL, NL>>
                 \o plain_lines(commit_sha, Take(missing_layout, ListLimit))
                 \o more_line(Len(missing_layout))
            ELSE <<>>)
        \o (IF custom_headers # <<>>
            THEN <<NL, "### Custom Headers (", ToString(Len(custom_headers)), " components)", NL, NL>>
                 \o plain_lines(commit_sha, custom_headers)
            ELSE <<>>)
        \o (IF non_compliant_comps # <<>>
            THEN <<NL, "### Non-Compliant Components (", ToString(Len(non_compliant_comps)), ")", NL, NL>>
                 \o non_compliant_lines(commit_sha, non_compliant_comps)
            ELSE <<>>)

compliance_sections(commit_sha, results) ==
    LET partial_comps  == Get(results, "partiallyCompliant", <<>>)
        nested_layouts == SelectSeq(partial_comps, LAMBDA c : has_issue(c, "layout components"))
        missing_layout == SelectSeq(partial_comps, LAMBDA c : has_issue(c, "Missing PageLayout"))
        custom_headers == SelectSeq(partial_comps, LAMBDA c : has_issue(c, "custom header"))
        non_compliant_comps == Get(results, "nonCompliant", <<>>)
    IN  (IF nested_layouts # <<>>
         THEN <<NL, "### Nested Layouts (", ToString(Len(nested_layouts)), " components)", NL, NL>>
              \o nested_layout_lines(commit_sha, Take(sorted_desc(nested_layouts), ListLimit))
              \o more_line(Len(nested_layouts))
         ELSE <<>>)
        \o (IF missing_layout # <<>>
            THEN <<NL, "### Missing PageLayout (", ToString(Len(missing_layout)), " components)", NL, NL>>
                 \o plain_lines(commit_sha, Take(missing_layout, ListLimit))
                 \o more_line(Len(missing_layout))
            ELSE <<>>)
        \o (IF custom_headers # <<>>
            THEN <<NL, "### Custom Headers (", ToString(Len(custom_headers)), " components)", NL, NL>>
                 \o plain_lines(commit_sha, custom_headers)
            ELSE <<>>)
        \o (IF non_compliant_comps # <<>>
            THEN <<NL, "### Non-Compliant Components (", ToString(Len(non_compliant_comps)), ")", NL, NL>>
                 \o non_compliant_lines(commit_sha, non_compliant_comps)
            ELSE <<>>)

\* A component without a name makes build_comment_body raise KeyError.
names_present(results) ==
    /\ \A k \in 1..Len(Get(results, "partiallyCompliant", <<>>)) :
           "name" \in DOMAIN results.partiallyCompliant[k]
    /\ \A k \in 1..Len(Get(results, "nonCompliant", <<>>)) :
           "name" \in DOMAIN results.nonCompliant[k]

\* ComplianceCommentManager.build_comment_body; self is (commit_sha,
\* workflow_url, report_data).
compliance_comment_body(self, timestamp) ==
    LET summary        == Get(self.report_data, "summary", <<>>)
        results        == Get(self.report_data, "results", <<>>)
        total          == Get(summary, "total", 0)
        compliant      == Get(summary, "compliant", 0)
        partial        == Get(summary, "partiallyCompliant", 0)
        non_compliant  == Get(summary, "nonCompliant", 0)
        compliance_pct == Get(summary, "overallCompliance", 0)
        short          == IF self.commit_sha # <<>> THEN Take(self.commit_sha, ShaShortLen)
                          ELSE <<"unknown">>
    IN  COMPLIANCE_MARKER
        \o <<NL, "## Framework Compliance Report", NL, NL,
             "<a href=https://github.com/owner/repo/commit/">> \o self.commit_sha
        \o <<"><img Commit-">> \o short \o <<"/></a>", NL, "<a href=">> \o self.workflow_url
        \o <<"><img Workflow-View_Logs/></a>", NL, "<img Compliance-", ToString(compliance_pct),
             "%25-", compliance_status_badge(compliance_pct), "/>", NL, NL,
             "**Generated:** ", timestamp, "  ", NL,
             "**Status:** ", compliance_status_text(compliance_pct), NL, NL,
             "### Summary", NL, NL,
             "| Compliant | ", ToString(compliant), "/", ToString(total), " | ",
                 ToString(round_percentage(compliant, total)), "% |", NL,
             "| Partial | ", ToString(partial), "/", ToString(total), " | ",
                 ToString(round_percentage(partial, total)), "% |", NL,
             "| Non-compliant | ", ToString(non_compliant), "/", ToString(total), " | ",
                 ToString(round_percentage(non_compliant, total)), "% |", NL, NL>>
        \o compliance_sections(self.commit_sha, results)
        \o <<NL, RULE, NL, NL>>
        \o compliance_footer(non_compliant, partial)
        \o <<"**Resources:**", NL, "- [Page Framework Documentation](blob/">> \o self.commit_sha
        \o <<"/public/docs/page-framework.md)", NL, "- [View Full Workflow Logs](">>
        \o self.workflow_url
        \o <<")", NL, NL, FOOTER_HINT,
             "This comment is automatically updated when compliance checks run.*", NL>>

\* ComplianceCommentManager.update_comment as the outcome of one invocation.
compliance_update_comment(self, remote, net, timestamp) ==
    LET existing == get_existing_comment(COMPLIANCE_MARKER, remote, net.read)
        raised   == ~names_present(Get(self.report_data, "results", <<>>))
        op       == IF raised THEN "raise" ELSE dispatch(existing)
        wrote    == ~raised
    IN  [op |-> op, stage |-> "", existing |-> existing, duplicate |-> 0,
         body |-> IF wrote THEN compliance_comment_body(self, timestamp) ELSE <<>>,
         entries |-> <<>>, reads |-> 1, writes |-> IF wrote THEN 1 ELSE 0,
         read_failed |-> ~net.read, dup_failed |-> FALSE,
         write_failed |-> wrote /\ ~net.write,
         result |-> wrote /\ net.write]

----------------------------------------------------------------------------
(* SecurityCheckCommentManager.                                            *)

SECURITY_MARKER == <<"<!-- ", "sgex-security-check-comment", " -->">>

create_comment_body(security_text_in) ==
    SECURITY_MARKER \o <<NL>> \o security_text_in
    \o <<NL, NL, RULE, NL, NL,
         "*This security check is automatically run on every PR build.*", NL>>

\* update_or_create_comment: the body is built first, then discovery.
update_or_create_comment(security_text_in, remote, net) ==
    LET existing == get_existing_comment(SECURITY_MARKER, remote, net.read)
    IN  [op |-> dispatch(existing),
         stage |-> "", existing |-> existing, duplicate |-> 0,
         body |-> create_comment_body(security_text_in),
         entries |-> <<>>, reads |-> 1, writes |-> 1,
         read_failed |-> ~net.read, dup_failed |-> FALSE, write_failed |-> ~net.write,
         result |-> net.write]

----------------------------------------------------------------------------
(* Copilot rate limit handler: wait time extraction                        *)
(* (test-copilot-rate-limit-handler.py, test_wait_time_extraction).         *)
(* A comment is a sequence of lower-case words; white space is between     *)
(* any two of them.                                                        *)

\* int(match.group(1)) of the amounts that occur.
AmountValue ==
    [t \in {"0", "7", "61", "361"} |->
        CASE t = "0" -> 0 [] t = "7" -> 7 [] t = "61" -> 61 [] t = "361" -> 361]

\* (minute|hour|second): the alternative a unit word begins with.
UnitStem ==
    [t \in {"minutes", "hour", "seconds"} |->
        CASE t = "minutes" -> "minute" [] t = "hour" -> "hour" [] t = "seconds" -> "second"]

\* (\d+)\s*(minute|hour|second) at position i.
AmountAt(words, i) ==
    /\ i >= 1 /\ i + 1 <= Len(words)
    /\ words[i] \in DOMAIN AmountValue
    /\ words[i + 1] \in DOMAIN UnitStem

\* retry\s+after\s+(\d+)\s*(minute|hour|second): place of the amount, 0 for None.
retry_after_match(words) ==
    FirstIndex({i \in 3..Len(words) :
                   words[i - 2] = "retry" /\ words[i - 1] = "after" /\ AmountAt(words, i)})

\* wait\s+(\d+)\s*(minute|hour|second)
wait_match(words) ==
    FirstIndex({i \in 2..Len(words) : words[i - 1] = "wait" /\ AmountAt(words, i)})

\* (\d+)\s*(hour|minute|second)s?\s+before, or else the same at the end.
time_match(words) ==
    LET before == FirstIndex({i \in 1..Len(words) :
                      AmountAt(words, i) /\ i + 2 <= Len(words) /\ words[i + 2] = "before"})
    IN  IF before # 0 THEN before
        ELSE FirstIndex({i \in 1..Len(words) : AmountAt(words, i) /\ i + 1 = Len(words)})

\* match = retry_after_match or wait_match or time_match
wait_time_match(words) ==
    IF retry_after_match(words) # 0 THEN retry_after_match(words)
    ELSE IF wait_match(words) # 0 THEN wait_match(words)
    ELSE time_match(words)

DefaultWaitMinutes == 60

MaxWaitMinutes == 360

\* The same derivation without the cap.
wait_minutes_uncapped(words) ==
    LET match == wait_time_match(words)
    IN  IF match # 0
        THEN LET time == AmountValue[words[match]]
                 unit == UnitStem[words[match + 1]]
             IN  IF unit = "hour" THEN time * 60
                 ELSE IF unit = "second"
                 THEN (IF (time + 59) \div 60 > 1 THEN (time + 59) \div 60 ELSE 1)
                 ELSE time
        ELSE DefaultWaitMinutes

\* The wait in minutes derived from a comment.
wait_minutes(words) ==
    LET match == wait_time_match(words)
        derived ==
            IF match # 0
            THEN LET time == AmountValue[words[match]]
                     unit == UnitStem[words[match + 1]]
                 IN  IF unit = "hour" THEN time * 60
                     ELSE IF unit = "second"
                     THEN (IF (time + 59) \div 60 > 1 THEN (time + 59) \div 60 ELSE 1)
                     ELSE time
            ELSE DefaultWaitMinutes
    IN  Min(derived, MaxWaitMinutes)

----------------------------------------------------------------------------
(* State.                                                                  *)

VARIABLES
    comments,   \* the pull request's comments, in API order: [id, body]
    next_id,    \* the id the tracker gives the next created comment
    clock,      \* number of invocations so far; the next timestamp is clock + 1
    last,       \* what the latest invocation did and returned
    timeline,   \* history: per comment id, the entries its latest body was rendered with
    hist,       \* history: per invocation, who called, with which stage, to what end
    pending,    \* per concurrent invocation: where it stands and what it is about to write
    app         \* the latest application of a helper function: name, arguments, result

vars == <<comments, next_id, clock, last, timeline, hist, pending, app>>

\* Invocations explored per behaviour.
MaxCalls == 2

timestamp(n) == "T" \o ToString(n)

NoFile == [exists |-> FALSE, text |-> <<>>]

NoCall ==
    [manager |-> "none", action_id |-> <<>>, commit_sha |-> <<>>, stage_arg |-> <<>>,
     op |-> "none", stage |-> "", existing |-> 0, duplicate |-> 0, body |-> <<>>,
     target |-> 0, entries |-> <<>>, reads |-> 0, writes |-> 0, read_failed |-> FALSE,
     dup_failed |-> FALSE, write_failed |-> FALSE, result |-> FALSE, exit_code |-> 0]

\* The invocations that may overlap in time.
Procs == {1, 2}

Idle == [pc |-> "idle"]

NoApp == [fn |-> "none"]

Init ==
    /\ comments = <<>>
    /\ next_id = 1
    /\ clock = 0
    /\ last = NoCall
    /\ timeline = <<>>
    /\ hist = <<>>
    /\ pending = [p \in Procs |-> Idle]
    /\ app = NoApp

\* main(): the manager is built from the command line; the commit is taken
\* from the payload when --commit-sha is absent.
manager(action_id, data) ==
    [action_id     |-> action_id,
     commit_sha    |-> Get(data, "commit_sha", <<>>),
     workflow_name |-> <<"Unknown Workflow">>,
     event_name    |-> "unknown"]

Publish_despite_failure(out) ==
    IF out.op = "create"
    THEN /\ comments' = Append(comments, [id |-> next_id, body |-> out.body])
         /\ timeline' = Append(timeline, out.entries)
         /\ next_id' = next_id + 1
    ELSE IF out.op = "update"
    THEN /\ comments' = [comments EXCEPT ![out.existing].body = out.body]
         /\ timeline' = [timeline EXCEPT ![comments[out.existing].id] = out.entries]
         /\ next_id' = next_id
    ELSE UNCHANGED <<comments, timeline, next_id>>

\* The tracker applies a successful POST or PATCH; anything else leaves the
\* list as it was.
Publish(out) ==
    IF out.result /\ out.op = "create"
    THEN /\ comments' = Append(comments, [id |-> next_id, body |-> out.body])
         /\ timeline' = Append(timeline, out.entries)
         /\ next_id' = next_id + 1
    ELSE IF out.result /\ out.op = "update"
    THEN /\ comments' = [comments EXCEPT ![out.existing].body = out.body]
         /\ timeline' = [timeline EXCEPT ![comments[out.existing].id] = out.entries]
         /\ next_id' = next_id
    ELSE UNCHANGED <<comments, timeline, next_id>>

Record(kind, action_id, commit_sha, stage_arg, out) ==
    /\ last' = [manager |-> kind, action_id |-> action_id, commit_sha |-> commit_sha,
                stage_arg |-> stage_arg,
                op |-> out.op, stage |-> out.stage,
                existing |-> IF out.existing = 0 THEN 0 ELSE comments[out.existing].id,
                duplicate |-> IF out.duplicate = 0 THEN 0 ELSE comments[out.duplicate].id,
                target |-> IF out.op = "create" THEN next_id
                           ELSE IF out.op = "update" THEN comments[out.existing].id ELSE 0,
                body |-> out.body, entries |-> out.entries,
                reads |-> out.reads, writes |-> out.writes,
                read_failed |-> out.read_failed, dup_failed |-> out.dup_failed,
                write_failed |-> out.write_failed,
                result |-> out.result,
                exit_code |-> IF out.result THEN 0 ELSE 1]
    /\ hist' = Append(hist, [manager |-> kind, action_id |-> action_id, stage |-> out.stage,
                             op |-> out.op, result |-> out.result])
    /\ clock' = clock + 1

\* One run of manage-pr-comment.py: main() builds the manager, calls
\* update_comment and exits with its result.
UpdateComment(action_id, stage_arg, data, net, file) ==
    /\ clock < MaxCalls
    /\ UNCHANGED <<pending, app>>
    /\ \E out \in {update_comment(manager(action_id, data), stage_arg, data, comments, net,
                                  timestamp(clock + 1), file)} :
           /\ Publish(out)
           /\ Record("deployment", action_id, Get(data, "commit_sha", <<>>), stage_arg, out)

\* One run of manage-compliance-comment.py.
ComplianceUpdate(commit_sha, workflow_url, report_data, net) ==
    /\ clock < MaxCalls
    /\ UNCHANGED <<pending, app>>
    /\ \E out \in {compliance_update_comment(
                       [commit_sha |-> commit_sha, workflow_url |-> workflow_url,
                        report_data |-> report_data],
                       comments, net, timestamp(clock + 1))} :
           /\ Publish(out)
           /\ Record("compliance", <<>>, commit_sha, <<>>, out)

\* One run of manage-security-comment.py.
SecurityUpdate(security_text_in, net) ==
    /\ clock < MaxCalls
    /\ UNCHANGED <<pending, app>>
    /\ \E out \in {update_or_create_comment(security_text_in, comments, net)} :
           /\ Publish(out)
           /\ Record("security", <<>>, <<>>, <<>>, out)

Net == [read : BOOLEAN, dup : BOOLEAN, write : BOOLEAN]

AllOk == [read |-> TRUE, dup |-> TRUE, write |-> TRUE]

ActionIds == {<<"a">>, <<"b">>}

StageArgs == {<<"started">>, <<"success">>, <<"failure">>, <<" ", "Building", NL>>, <<"Deploy">>}

Benign ==
    [commit_sha   |-> <<"c1">>,
     branch_name  |-> <<"feature">>,
     commit_url   |-> <<"https://", "github.com/", "owner/repo", "/commit/", "c1">>,
     workflow_url |-> <<"https://", "github.com/", "owner/repo/actions/runs/1">>,
     error_message |-> <<"build failed">>]

\* A payload whose free text carries the anchors the timeline parser looks for.
Crafted ==
    [commit_sha   |-> <<"c1">>,
     branch_name  |-> <<"x", TIMELINE_HEADER>>,
     commit_url   |-> <<"http://", "evil.example/">>,
     workflow_url |-> <<"https://", "github.com/", "owner/repo/actions/runs/1">>,
     error_message |-> <<"see ", TIMELINE_HEADER>>]

Payloads == {Benign, Crafted}

\* Requests of the two-request managers: only read and write are issued.
Net2 == {net \in Net : net.dup}

Reports ==
    {<<>>,
     [summary |-> [total |-> 3, compliant |-> 2, partiallyCompliant |-> 1, nonCompliant |-> 0,
                   overallCompliance |-> 67]]}

WorkflowUrl == <<"https://", "github.com/", "owner/repo/actions/runs/1">>

Next ==
    \/ \E action_id \in ActionIds, stage_arg \in StageArgs, data \in Payloads :
           \E net \in (IF validate_stage(stage_arg) = <<>> THEN {AllOk} ELSE Net) :
               UpdateComment(action_id, stage_arg, data, net, NoFile)
    \/ \E report_data \in Reports, net \in Net2 :
           ComplianceUpdate(<<"c1">>, WorkflowUrl, report_data, net)
    \/ \E net \in Net2 : SecurityUpdate(<<"No security issues found">>, net)

Spec == Init /\ [][Next]_vars

\* The same runs when every request succeeds.
NextReliable ==
    \/ \E action_id \in ActionIds, stage_arg \in StageArgs, data \in Payloads :
           UpdateComment(action_id, stage_arg, data, AllOk, NoFile)
    \/ \E report_data \in Reports :
           ComplianceUpdate(<<"c1">>, WorkflowUrl, report_data, AllOk)
    \/ SecurityUpdate(<<"No security issues found">>, AllOk)

SpecReliable == Init /\ [][NextReliable]_vars

\* One workflow run going through any of the allowed stages, every request
\* succeeding; the payload may also be empty and the security report present.
AllStageArgs == {<<stage>> : stage \in ALLOWED_STAGES}

NoPayload == <<>>

Files ==
    {NoFile,
     [exists |-> TRUE, text |-> <<"WARNINGS", NL, RULE, NL, "2 moderate">>],
     [exists |-> TRUE, text |-> <<"ISSUES FOUND">>]}

NextRender ==
    \E stage_arg \in AllStageArgs, data \in Payloads \cup {NoPayload} :
        \E file \in (IF stage_arg = <<"security-check">> THEN Files ELSE {NoFile}) :
            UpdateComment(<<"a">>, stage_arg, data, AllOk, file)

SpecRender == Init /\ [][NextRender]_vars

\* Runs that start on a pull request which already holds comments: a
\* managed comment of identity a, two of them (what a swallowed read failure
\* leaves behind), and a comment written by a person who quotes the marker.
SeedStamp == "T0"

managed_comment(action_id, stage, data) ==
    [body    |-> build_comment_body(manager(action_id, data), stage, data, <<>>,
                                    SeedStamp, NoFile),
     entries |-> <<new_entry(stage, data, SeedStamp, NoFile)>>]

quoting_comment(action_id) ==
    [body    |-> <<"> ">> \o comment_marker(action_id)
                 \o <<NL, "Which workflow writes this line?">>,
     entries |-> <<>>]

Seeds ==
    {<<>>,
     <<managed_comment(<<"a">>, "started", Benign)>>,
     <<managed_comment(<<"a">>, "started", Benign),
       managed_comment(<<"a">>, "success", Benign)>>,
     <<quoting_comment(<<"a">>)>>,
     <<quoting_comment(<<"a">>), managed_comment(<<"a">>, "started", Benign)>>,
     <<managed_comment(<<"a">>, "started", Benign), quoting_comment(<<"a">>)>>}

InitSeeded ==
    \E seed \in Seeds :
        /\ comments = [i \in 1..Len(seed) |-> [id |-> i, body |-> seed[i].body]]
        /\ timeline = [i \in 1..Len(seed) |-> seed[i].entries]
        /\ next_id = Len(seed) + 1
        /\ clock = 0
        /\ last = NoCall
        /\ hist = <<>>
        /\ pending = [p \in Procs |-> Idle]
        /\ app = NoApp

SeededStageArgs == {<<"started">>, <<"success">>}

SeededNets == {AllOk, [read |-> FALSE, dup |-> TRUE, write |-> TRUE]}

\* A payload whose branch name is the text of identity a's marker.
Forged == [Benign EXCEPT !.branch_name = comment_marker(<<"a">>)]

NextSeeded ==
    \E action_id \in ActionIds, stage_arg \in SeededStageArgs,
       data \in Payloads \cup {NoPayload, Forged}, net \in SeededNets :
        UpdateComment(action_id, stage_arg, data, net, NoFile)

SpecSeeded == InitSeeded /\ [][NextSeeded]_vars

(***************************************************************************)
(* Two invocations of manage-pr-comment.py running at the same time, as   *)
(* two workflow jobs do.  Each invocation is one update_comment call; its *)
(* steps are its requests: the listing of get_existing_comment, the       *)
(* listing of check_duplicate_comment_for_commit (issued only when no     *)
(* comment was found and a commit is known), and the PATCH or POST.       *)
(* pending[p] holds what invocation p has read so far.                    *)
(***************************************************************************)
ConcurrentStageArgs == {<<"started">>, <<"success">>}

ConcurrentPayloads == Payloads \cup {NoPayload}

Decide(p, call, scan) ==
    pending' = [pending EXCEPT ![p] =
        [pc |-> "decided", action_id |-> call.action_id, stage_arg |-> call.stage_arg,
         data |-> call.data, listing |-> call.listing,
         out |-> update_comment_requests(manager(call.action_id, call.data),
                                         call.stage_arg, call.data, call.listing, scan,
                                         AllOk, timestamp(clock + 1), NoFile)]]

Discover(p, action_id, stage_arg, data) ==
    /\ pending[p].pc = "idle"
    /\ LET call == [action_id |-> action_id, stage_arg |-> stage_arg, data |-> data,
                    listing |-> comments]
           self == manager(action_id, data)
       IN  IF /\ get_existing_comment(comment_marker(action_id), comments, TRUE) = 0
              /\ duplicate_check_reads(self)
           THEN pending' = [pending EXCEPT ![p] =
                    [pc |-> "listed", action_id |-> action_id, stage_arg |-> stage_arg,
                     data |-> data, listing |-> comments, out |-> NoCall]]
           ELSE Decide(p, call, comments)
    /\ UNCHANGED <<comments, next_id, clock, last, timeline, hist, app>>

DuplicateGuard(p) ==
    /\ pending[p].pc = "listed"
    /\ Decide(p, pending[p], comments)
    /\ UNCHANGED <<comments, next_id, clock, last, timeline, hist, app>>

Write_rediscover(p) ==
    /\ pending[p].pc = "decided"
    /\ \E out \in {update_comment(manager(pending[p].action_id, pending[p].data),
                                  pending[p].stage_arg, pending[p].data, comments, AllOk,
                                  timestamp(clock + 1), NoFile)} :
           /\ Publish(out)
           /\ Record("deployment", pending[p].action_id,
                     Get(pending[p].data, "commit_sha", <<>>), pending[p].stage_arg, out)
           /\ pending' = [pending EXCEPT ![p].pc = "done", ![p].out = out]
    /\ UNCHANGED app

Write(p) ==
    /\ pending[p].pc = "decided"
    /\ \E out \in {pending[p].out} :
           /\ Publish(out)
           /\ Record("deployment", pending[p].action_id,
                     Get(pending[p].data, "commit_sha", <<>>), pending[p].stage_arg, out)
    /\ pending' = [pending EXCEPT ![p].pc = "done"]
    /\ UNCHANGED app

NextConcurrent ==
    \/ \E p \in Procs, action_id \in ActionIds, stage_arg \in ConcurrentStageArgs,
          data \in ConcurrentPayloads :
           Discover(p, action_id, stage_arg, data)
    \/ \E p \in Procs : DuplicateGuard(p)
    \/ \E p \in Procs : Write(p)

SpecConcurrent == InitSeeded /\ [][NextConcurrent]_vars

----------------------------------------------------------------------------
(* The helper functions applied to arguments drawn from small sets, one    *)
(* application per behaviour.                                              *)

\* Longest argument, in characters (tokens for a URL).
MaxLen == 3

Seqs(S, n) == UNION {[1..k -> S] : k \in 0..n}

\* One character per token: a letter, the backtick, the backslash, the
\* three control characters the class leaves alone and two it removes.
SampleChars == {"a", BACKTICK, BACKSLASH, NL, "\t", "\r", "<0x07>", "<0x7F>"}

\* str(value) of a value that is no string.
StrOfNone == <<"N", "o", "n", "e">>

ApplySanitizeString ==
    /\ app = NoApp
    /\ \E value \in Seqs(SampleChars, MaxLen) \cup {StrOfNone}, max_length \in 0..MaxLen :
           /\ app' = [fn |-> "sanitize_string", args |-> <<value, max_length>>,
                      result |-> sanitize_string(value, max_length)]
           /\ UNCHANGED <<comments, next_id, clock, last, timeline, hist, pending>>

UrlToks == {"https://", "http://", "github.com/", "evil.example/", "owner", ".github.io/"}

\* A url argument that is no string (None, a number).
NotAUrl == <<"<not a string>">>

ApplySanitizeUrl ==
    /\ app = NoApp
    /\ \E url \in Seqs(UrlToks, MaxLen) \cup {NotAUrl} :
           /\ app' = [fn |-> "sanitize_url", args |-> <<url>>, result |-> sanitize_url(url)]
           /\ UNCHANGED <<comments, next_id, clock, last, timeline, hist, pending>>

\* Characters of action ids: two the class keeps, two it drops.
IdChars == {"a", "-", ".", "/"}

\* An id one character longer than the marker keeps.
LongId(c) == [i \in 1..(MaxActionIdLen + 1) |-> IF i <= MaxActionIdLen THEN "a" ELSE c]

SampleIds == Seqs(IdChars, MaxLen) \cup {LongId("a"), LongId("-")}

\* Two managers constructed with two action ids.
ApplyCommentMarker ==
    /\ app = NoApp
    /\ \E id1 \in SampleIds, id2 \in SampleIds :
           /\ app' = [fn |-> "comment_marker", args |-> <<id1, id2>>,
                      result |-> <<comment_marker(id1), comment_marker(id2)>>]
           /\ UNCHANGED <<comments, next_id, clock, last, timeline, hist, pending>>

IssueToks == {"Found ", "12", " layout components, ", "3", "Missing PageLayout"}

NotAString == <<"<not a string>">>

\* Components: without the issues key (also what subscripting a component
\* that is no dict comes to: no issues to read), with an empty list, with a
\* first issue that is no string (also an issues value that is None: it
\* cannot be subscripted), and with one or two issue texts.
SampleComponents ==
    {[name |-> <<"A">>],
     [name |-> <<"A">>, issues |-> <<>>],
     [name |-> <<"A">>, issues |-> <<NotAString>>]}
    \cup {[name |-> <<"A">>, issues |-> <<text>>] : text \in Seqs(IssueToks, MaxLen)}
    \cup {[name |-> <<"A">>, issues |-> <<text, <<"Found ", "5">> >>] :
              text \in Seqs(IssueToks, 1)}

ApplyLayoutCount ==
    /\ app = NoApp
    /\ \E comp \in SampleComponents :
           /\ app' = [fn |-> "get_layout_count_for_sorting", args |-> <<comp>>,
                      result |-> get_layout_count_for_sorting(comp)]
           /\ UNCHANGED <<comments, next_id, clock, last, timeline, hist, pending>>

\* A payload whose fields carry control characters, backticks and URLs
\* off the allow-list.
Hostile ==
    [commit_sha    |-> <<"c", BACKTICK, "<0x07>", "1">>,
     branch_name   |-> <<"feat", BACKTICK, "\t", "<0x1B>", "x">>,
     commit_url    |-> <<"https://", "evil.example/", "github.com/">>,
     workflow_url  |-> <<"javascript:", "alert(1)">>,
     branch_url    |-> <<"https://", "owner", ".evil.io/">>,
     error_message |-> <<BACKTICK, "rm -rf", BACKTICK, "<0x00>">>]

PriorTimelines ==
    {<<>>, <<TIMELINE_HEADER, NL, NL>> \o new_entry("started", Benign, SeedStamp, NoFile)}

\* build_comment_body as verify-comment-marker.py calls it: a manager, a
\* stage, a payload and a prior timeline.
ApplyRender ==
    /\ app = NoApp
    /\ \E stage \in ALLOWED_STAGES, data \in Payloads \cup {NoPayload, Hostile},
          existing_timeline \in PriorTimelines :
           /\ app' = [fn |-> "build_comment_body", args |-> <<stage, data, existing_timeline>>,
                      result |-> build_comment_body(manager(<<"a">>, data), stage, data,
                                                    existing_timeline, timestamp(1), NoFile)]
           /\ UNCHANGED <<comments, next_id, clock, last, timeline, hist, pending>>

MaxComps == 6

\* First issue texts of a component: two counts, a nested-layout issue
\* without a number, and no issue at all.
LayoutIssues ==
    {<<<<"Found", " ", "12", " ", "layout components">>>>,
     <<<<"Found", " ", "3", " ", "layout components">>>>,
     <<<<"Nested ", "layout components">>>>,
     <<>>}

ComponentLists ==
    UNION {[1..n -> [name : {"C"}, issues : LayoutIssues]] : n \in 0..MaxComps}

\* Components are told apart by their place in the report.
Named(comps) == [k \in DOMAIN comps |-> [comps[k] EXCEPT !.name = "C" \o ToString(k)]]

\* The sort of test_sorting_behavior and the comment built from a report
\* whose partially compliant components are the same list.
ApplySorting ==
    /\ app = NoApp
    /\ \E list \in ComponentLists :
           LET comps  == Named(list)
               report == [summary |-> [total |-> Len(comps), compliant |-> 0,
                                       partiallyCompliant |-> Len(comps), nonCompliant |-> 0,
                                       overallCompliance |-> 50],
                          results |-> [partiallyCompliant |-> comps]]
           IN  app' = [fn |-> "sorted", args |-> <<comps>>,
                       result |-> [sorted |-> sorted_desc(comps),
                                   body |-> compliance_comment_body(
                                       [commit_sha |-> <<"c1">>, workflow_url |-> WorkflowUrl,
                                        report_data |-> report], timestamp(1))]]
    /\ UNCHANGED <<comments, next_id, clock, last, timeline, hist, pending>>

MaxWords == 4

Words == {"retry", "after", "wait", "before", "again"}
         \cup DOMAIN AmountValue \cup DOMAIN UnitStem

\* One test case of test_wait_time_extraction: a comment and the wait
\* derived from it.
ApplyWaitTime ==
    /\ app = NoApp
    /\ \E words \in Seqs(Words, MaxWords) :
           app' = [fn |-> "wait_minutes", args |-> <<words>>,
                   result |-> [match |-> wait_time_match(words),
                               wait_minutes |-> wait_minutes(words)]]
    /\ UNCHANGED <<comments, next_id, clock, last, timeline, hist, pending>>

NextPure ==
    \/ ApplySanitizeString
    \/ ApplySanitizeUrl
    \/ ApplyCommentMarker
    \/ ApplyLayoutCount
    \/ ApplyRender
    \/ ApplySorting
    \/ ApplyWaitTime

SpecPure == Init /\ [][NextPure]_vars

----------------------------------------------------------------------------
(* Properties.                                                             *)

OwnComments(action_id) ==
    {i \in 1..Len(comments) : Contains(comments[i].body, comment_marker(action_id))}

\* C1: under sequential invocations, some of whose reads or writes fail, the
\* pull request never holds more than one comment containing the marker of
\* one workflow identity.
C1_AtMostOneCommentPerMarker ==
    \A action_id \in ActionIds : Cardinality(OwnComments(action_id)) <= 1

\* C2: when the list-comments read or the create/update write of a
\* deployment invocation fails in transport, update_comment returns False
\* and the process exits non-zero.
C2_TransportFailureReported ==
    (last.manager = "deployment"
        /\ (last.read_failed \/ last.dup_failed \/ last.write_failed))
    => (~last.result /\ last.exit_code # 0)

\* C3: for every allowed stage, payload and prior timeline, rendering does
\* not raise and the body that is created or updated starts with the
\* manager's marker; every deployment comment on the pull request starts
\* with the marker of its identity.
C3_BodyStartsWithMarker ==
    /\ (last.manager = "deployment" /\ last.op \notin {"invalid", "skip"})
       => /\ last.op \in {"create", "update"}
          /\ StartsWith(last.body, comment_marker(last.action_id))
    /\ \A i \in 1..Len(comments) :
          Contains(comments[i].body, <<COMMENT_MARKER_BASE>>)
          => \E action_id \in ActionIds :
                 StartsWith(comments[i].body, comment_marker(action_id))

\* C3 witness: an update rendered from a non-empty prior timeline with the
\* security report present.
C3_Witness ==
    /\ last.op = "update"
    /\ last.stage = "security-check"
    /\ Len(last.entries) >= 2
    /\ StartsWith(comments[last.target].body, comment_marker(last.action_id))

\* C4: a deployment invocation goes on to discovery exactly when the
\* lowercased, trimmed stage argument is one of the allowed stages; any
\* other argument makes it return False with no read and no write.
C4_StageAcceptedIffAllowed ==
    last.manager = "deployment"
    => LET norm == Strip(lower(last.stage_arg))
       IN  IF Len(norm) = 1 /\ norm[1] \in ALLOWED_STAGES
           THEN last.op # "invalid" /\ last.stage = norm[1] /\ last.reads >= 1
           ELSE /\ last.op = "invalid"
                /\ ~last.result
                /\ last.reads = 0
                /\ last.writes = 0

\* C4 witness: an argument in mixed case with surrounding whitespace was
\* accepted as building, and a later argument outside the set was rejected
\* while the pull request held a comment.
C4_Witness ==
    /\ Len(hist) = 2
    /\ hist[1].stage = "building" /\ hist[1].result
    /\ last.stage_arg = <<"Deploy">> /\ last.op = "invalid"
    /\ comments # <<>>

\* C5: in each of the three managers, an invocation whose discovery located
\* a comment updates that comment (the list keeps its length and its ids,
\* and a successful update makes the located comment carry the new body);
\* it creates only when discovery located none.
C5_UpdateWhenFoundElseCreate ==
    [][ /\ last'.existing # 0
           => /\ last'.op = "update"
              /\ last'.target = last'.existing
              /\ Len(comments') = Len(comments)
              /\ \A i \in 1..Len(comments) : comments'[i].id = comments[i].id
              /\ last'.result
                 => \E i \in 1..Len(comments) :
                        /\ comments[i].id = last'.existing
                        /\ comments'[i].body = last'.body
        /\ last'.op = "create" => last'.existing = 0
        /\ (last'.op = "create" /\ last'.result)
           => /\ Len(comments') = Len(comments) + 1
              /\ comments'[Len(comments')].body = last'.body
      ]_vars

\* C5 witness: an invocation found its comment and updated it in place.
C5_Witness ==
    /\ last.op = "update" /\ last.result
    /\ last.existing # 0
    /\ Len(comments) = 1
    /\ comments[1].id = last.target /\ comments[1].body = last.body

\* An entry as the next call is to carry it: in-progress glyph turned into
\* the completed glyph, nothing else touched.
completed_form(entry) ==
    ReplaceAll(entry, <<ENTRY_SEP, IN_PROGRESS, " ">>, <<ENTRY_SEP, COMPLETED, " ">>)

\* old is carried by new: every entry of old occurs in new, as it was or in
\* its completed form, in the same relative order.
RECURSIVE Carried(_, _)
Carried(old, new) ==
    IF old = <<>> THEN TRUE
    ELSE IF new = <<>> THEN FALSE
    ELSE IF new[1] \in {old[1], completed_form(old[1])}
         THEN Carried(Tail(old), Tail(new))
         ELSE Carried(old, Tail(new))

\* Every invocation so far was a successful deployment call of one identity,
\* and no two carried the same stage.
DistinctStageRun ==
    /\ hist # <<>>
    /\ \A k \in 1..Len(hist) :
          /\ hist[k].manager = "deployment"
          /\ hist[k].action_id = hist[1].action_id
          /\ hist[k].op \in {"create", "update"}
          /\ hist[k].result
    /\ \A j, k \in 1..Len(hist) : j # k => hist[j].stage # hist[k].stage

\* C6: after N successful calls of one identity with pairwise distinct
\* stages on a pull request that had no comment, the identity has one
\* comment whose timeline section holds exactly N entries, the k-th being
\* the entry of the k-th call.
C6_OneEntryPerCallInOrder ==
    DistinctStageRun
    => /\ Cardinality(OwnComments(hist[1].action_id)) = 1
       /\ \A i \in OwnComments(hist[1].action_id) :
             /\ Len(timeline[comments[i].id]) = Len(hist)
             /\ \A k \in 1..Len(hist) :
                   k <= Len(timeline[comments[i].id])
                   => timeline[comments[i].id][k][2] = timestamp(k)

\* C7: a successful update keeps every entry of the previous body in the new
\* body, in the same relative order, each unchanged or with its in-progress
\* glyph replaced by the completed glyph.
C7_EntriesCarriedAcrossUpdate ==
    [][ (last'.manager = "deployment" /\ last'.op = "update" /\ last'.result)
        => Carried(timeline[last'.target], timeline'[last'.target]) ]_vars

\* C8: an entry that one call rendered with the in-progress glyph appears
\* with the completed glyph in the body the next successful call on the
\* same comment produces, whatever stage that call carries.
C8_InProgressCompletedByNextCall ==
    [][ (/\ last.manager = "deployment" /\ last.result /\ last.target # 0
         /\ last'.manager = "deployment" /\ last'.op = "update" /\ last'.result
         /\ last'.target = last.target)
        => \A k \in 1..Len(last.entries) :
               Contains(last.entries[k], <<ENTRY_SEP, IN_PROGRESS, " ">>)
               => \E j \in 1..Len(last'.entries) :
                      last'.entries[j] = completed_form(last.entries[k]) ]_vars

\* C9: on a pull request with no comment, a started call of a marker creates
\* one comment whose body starts with the marker and holds one entry; a
\* following success call of the same marker updates that comment to two
\* entries, the first with the completed glyph, and creates no second one.
C9_StartedThenSuccess ==
    /\ (/\ Len(hist) >= 1
        /\ hist[1].manager = "deployment" /\ hist[1].stage = "started")
       => /\ hist[1].op = "create" /\ hist[1].result
          /\ StartsWith(comments[1].body, comment_marker(hist[1].action_id))
          /\ Len(hist) = 1 => Len(timeline[1]) = 1
    /\ (/\ Len(hist) = 2
        /\ hist[1].manager = "deployment" /\ hist[1].stage = "started"
        /\ hist[2].manager = "deployment" /\ hist[2].stage = "success"
        /\ hist[2].action_id = hist[1].action_id)
       => /\ hist[2].op = "update" /\ hist[2].result
          /\ Len(comments) = 1
          /\ Len(timeline[1]) = 2
          /\ Contains(timeline[1][1], <<ENTRY_SEP, COMPLETED, " ">>)
          /\ ~Contains(timeline[1][1], <<ENTRY_SEP, IN_PROGRESS, " ">>)

\* The commit the latest invocation ran for is a known one.
CommitKnown(call) == call.commit_sha \notin {<<>>, <<"unknown">>}

identity_token(action_id) ==
    Take(SelectSeq(action_id, LAMBDA c : c \in SafeIdChars), MaxActionIdLen)

BackticksEscaped(s) ==
    \A i \in 1..Len(s) : s[i] = BACKTICK => (i > 1 /\ s[i - 1] = BACKSLASH)

NoneOf(s, chars) == \A i \in 1..Len(s) : s[i] \notin chars

\* C13 as stated: the result of sanitize_string holds no control character
\* and only escaped backticks, and a rendered body holds no control
\* character that came with a payload field and only escaped backticks.
C13_NoControlCharacters ==
    /\ app.fn = "sanitize_string"
       => /\ NoneOf(app.result, ControlChars \cup {NL, "\t", "\r"})
          /\ BackticksEscaped(app.result)
    /\ (app.fn = "build_comment_body" /\ app.result # RuntimeError)
       => /\ NoneOf(app.result, ControlChars \cup {"\t", "\r"})
          /\ BackticksEscaped(app.result)

\* C13 amended: the result of sanitize_string holds no control character
\* other than tab, newline and carriage return, and only escaped
\* backticks; so does a body rendered from any payload.
C13_NoControlCharactersButWhitespace ==
    /\ app.fn = "sanitize_string"
       => /\ NoneOf(app.result, ControlChars)
          /\ BackticksEscaped(app.result)
    /\ (app.fn = "build_comment_body" /\ app.result # RuntimeError)
       => /\ NoneOf(app.result, ControlChars)
          /\ BackticksEscaped(app.result)

\* C13 witness: a body rendered from a payload whose branch name and commit
\* carry backticks and control characters shows the backticks escaped and
\* the tab kept.
C13_Witness ==
    /\ app.fn = "build_comment_body"
    /\ app.args[2] = Hostile
    /\ Contains(app.result, <<"feat", BACKSLASH, BACKTICK, "\t", "x">>)
    /\ Contains(app.result, <<"c", BACKSLASH, BACKTICK, "1">>)

\* C14: sanitize_string(value, max_length) returns at most max_length
\* characters.
C14_LengthAtMostCap ==
    app.fn = "sanitize_string" => Len(app.result) <= app.args[2]

\* url begins with https://github.com/ or with https://<label>.github.io/,
\* the label being one or more of the sampled label units.
OnAllowList(url) ==
    \/ StartsWith(url, <<"https://", "github.com/">>)
    \/ \E label \in Seqs(LabelToks \cap UrlToks, MaxLen) :
           label # <<>> /\ StartsWith(url, <<"https://">> \o label \o <<".github.io/">>)

UrlFields == {"commit_url", "workflow_url", "branch_url"}

\* C15: sanitize_url returns its argument unchanged when the argument
\* begins with https://github.com/ or https://<label>.github.io/, and the
\* empty string otherwise; a body rendered from a payload never holds a
\* URL field of the payload that is off the allow-list.
C15_UrlAllowListed ==
    /\ app.fn = "sanitize_url"
       => app.result = (IF OnAllowList(app.args[1]) THEN app.args[1] ELSE <<>>)
    /\ app.fn = "build_comment_body"
       => \A key \in UrlFields \cap DOMAIN app.args[2] :
              ~OnAllowList(app.args[2][key])
              => ~Contains(app.result, app.args[2][key])

\* C15 witness: a url that names the GitHub host after a foreign one was
\* turned into the empty string.
C15_Witness ==
    /\ app.fn = "sanitize_url"
    /\ app.args[1] = <<"https://", "evil.example/", "github.com/">>
    /\ app.result = <<>>

\* The number the claim expects of a well-formed component: the first
\* digit run of its first issue, 0 if that issue has none.
RECURSIVE FirstNumberOf(_)
FirstNumberOf(text) ==
    IF text = <<>> THEN 0
    ELSE IF text[1] \in {"0", "1", "2", "3", "5", "12"} THEN DigitValue[text[1]]
    ELSE FirstNumberOf(Tail(text))

\* C16: get_layout_count_for_sorting returns the first number of the first
\* issue, 0 when that issue has no digits, and 0, without raising, when the
\* issues are missing, empty or no strings.
C16_LayoutCount ==
    app.fn = "get_layout_count_for_sorting"
    => LET comp == app.args[1]
       IN  IF "issues" \in DOMAIN comp /\ comp.issues # <<>> /\ comp.issues[1] # NotAString
           THEN app.result = FirstNumberOf(comp.issues[1])
           ELSE app.result = 0

\* C16 witness: a first issue with two numbers gave the first one, the
\* second issue being ignored.
C16_Witness ==
    /\ app.fn = "get_layout_count_for_sorting"
    /\ "issues" \in DOMAIN app.args[1]
    /\ app.args[1].issues = << <<"Found ", "12", "3">> >>
    /\ app.result = 12

(***************************************************************************)
(* C17.  When several comments of the pull request contain the marker, a  *)
(* deployment call whose listing request succeeds selects the first of    *)
(* them in the order the listing returns, and the call changes no other   *)
(* comment: the later marker-bearing comments keep their bodies.          *)
(***************************************************************************)
FirstOwnComment(action_id) ==
    CHOOSE i \in OwnComments(action_id) : \A j \in OwnComments(action_id) : i <= j

C17_FirstContainingCommentSelected ==
    [][(/\ clock' = clock + 1
        /\ last'.manager = "deployment"
        /\ last'.op # "invalid"
        /\ ~last'.read_failed
        /\ OwnComments(last'.action_id) # {})
       => LET first == FirstOwnComment(last'.action_id)
          IN  /\ last'.existing = comments[first].id
              /\ last'.op \in {"update", "raise"}
              /\ Len(comments') = Len(comments)
              /\ \A i \in 1..Len(comments) : i # first => comments'[i] = comments[i]]_vars

C17_Witness ==
    /\ last.manager = "deployment"
    /\ last.op = "update"
    /\ last.result
    /\ last.target = 1
    /\ Len(comments) = 2
    /\ Cardinality(OwnComments(<<"a">>)) = 2
    /\ comments[1].body = last.body
    /\ comments[2].body = managed_comment(<<"a">>, "success", Benign).body

(***************************************************************************)
(* C18.  A deployment call recognises as its own only a comment whose     *)
(* body starts with the marker: a comment that merely contains the marker *)
(* further on in its body is neither selected nor overwritten.            *)
(***************************************************************************)
MerelyContains(body, marker) == Contains(body, marker) /\ ~StartsWith(body, marker)

C18_OnlyLeadingMarkerRecognised ==
    [][(/\ clock' = clock + 1
        /\ last'.manager = "deployment")
       => \A i \in 1..Len(comments) :
              MerelyContains(comments[i].body, comment_marker(last'.action_id))
              => /\ last'.existing # comments[i].id
                 /\ comments'[i] = comments[i]]_vars

(***************************************************************************)
(* C19.  Two invocations running at the same time for the same marker are *)
(* not serialised: when both have listed the comments before either has   *)
(* written, both find no managed comment, and unless the duplicate guard  *)
(* short-circuits one of them, both create, which leaves two comments     *)
(* carrying the marker.                                                   *)
(***************************************************************************)
FoundNone(p) ==
    get_existing_comment(comment_marker(pending[p].action_id), pending[p].listing, TRUE) = 0

Stamps == {SeedStamp} \cup {timestamp(n) : n \in 1..Cardinality(Procs)}

Untimed(s) == [i \in DOMAIN s |-> IF s[i] \in Stamps THEN "T" ELSE s[i]]

\* The body without the content of its timeline section: what precedes the
\* entries, up to and with the section's header, and what follows them.
Skeleton(out) ==
    LET text == Join(out.entries, NL)
        at   == Find(out.body, text, 1)
    IN  IF at = 0 THEN out.body
        ELSE RStrip(SubSeq(out.body, 1, at - 1)) \o Drop(out.body, at + Len(text) - 1)

\* q repeats p's call on the managed comment p has just updated.
Repeats(p, q) ==
    /\ p # q
    /\ pending[p].pc = "done" /\ pending[q].pc = "done"
    /\ pending[q].action_id = pending[p].action_id
    /\ pending[q].stage_arg = pending[p].stage_arg
    /\ pending[q].data = pending[p].data
    /\ pending[p].out.op = "update"
    /\ StartsWith(pending[p].listing[pending[p].out.existing].body,
                  comment_marker(pending[p].action_id))
    /\ Len(pending[q].listing) = Len(pending[p].listing)
    /\ pending[q].listing[pending[p].out.existing].body = pending[p].out.body

C21_FailedWriteNotRetried ==
    [][(/\ clock' = clock + 1
        /\ last'.manager = "deployment"
        /\ last'.write_failed)
       => /\ ~last'.result
          /\ last'.exit_code = 1
          /\ last'.writes = 1
          /\ comments' = comments]_vars

C21_Witness ==
    /\ last.manager = "deployment"
    /\ last.write_failed
    /\ last.op = "update"
    /\ ~last.result
    /\ last.writes = 1
    /\ Len(comments) = 1
    /\ comments[1].body # last.body

(***************************************************************************)
(* C22.  No stage ordering is enforced: a deployment call with any        *)
(* allowed stage directly after a successful call with any allowed stage  *)
(* on the same marker, success and failure included, is accepted, updates *)
(* the same comment, appends one timeline entry and turns the in-progress *)
(* glyphs of the earlier entries into completed ones.                     *)
(***************************************************************************)
C22_AnyStageFollowsAnyStage ==
    [][(/\ last.manager = "deployment" /\ last.result
        /\ last.op \in {"create", "update"}
        /\ clock' = clock + 1
        /\ last'.manager = "deployment"
        /\ last'.action_id = last.action_id)
       => /\ last'.op = "update" /\ last'.result
          /\ last'.target = last.target
          /\ Len(last'.entries) = Len(last.entries) + 1
          /\ \A k \in 1..Len(last.entries) :
                 k <= Len(last'.entries)
                 => last'.entries[k] = completed_form(last.entries[k])]_vars

(***************************************************************************)
(* C23.  Sorting components by get_layout_count_for_sorting, descending,  *)
(* orders them by decreasing count, those without a count (0) last, ties  *)
(* in their original order; the compliance comment lists the first five   *)
(* of the nested-layout components in that order.                         *)
(***************************************************************************)
\* The place of comps[i] in the order: after every component with a larger
\* count and every earlier component with the same count.
Rank(comps, i) ==
    1 + Cardinality({j \in 1..Len(comps) :
          \/ get_layout_count_for_sorting(comps[j]) > get_layout_count_for_sorting(comps[i])
          \/ /\ get_layout_count_for_sorting(comps[j]) = get_layout_count_for_sorting(comps[i])
             /\ j < i})

ByDecreasingCount(comps) ==
    [r \in 1..Len(comps) |-> comps[CHOOSE i \in 1..Len(comps) : Rank(comps, i) = r]]

C23_SortedByDecreasingCount ==
    app.fn = "sorted"
    => LET comps  == app.args[1]
           nested == SelectSeq(comps, LAMBDA c : has_issue(c, "layout components"))
       IN  /\ app.result.sorted = ByDecreasingCount(comps)
           /\ nested # <<>>
              => Contains(app.result.body,
                     <<" components)", NL, NL>>
                     \o nested_layout_lines(<<"c1">>, Take(ByDecreasingCount(nested), ListLimit))
                     \o more_line(Len(nested))
                     \o <<NL, RULE>>)

C23_Witness ==
    /\ app.fn = "sorted"
    /\ Len(app.args[1]) = 6
    /\ [k \in 1..6 |-> get_layout_count_for_sorting(app.args[1][k])] = <<3, 0, 12, 3, 12, 0>>
    /\ [k \in 1..6 |-> app.result.sorted[k].name] = <<"C3", "C5", "C1", "C4", "C2", "C6">>
    /\ Contains(app.result.body, <<"- ... and ", "1", " more", NL>>)
    /\ Contains(app.result.body, <<" [", "C2", "](">>)
    /\ ~Contains(app.result.body, <<" [", "C6", "](">>)

(***************************************************************************)
(* C30.  The compliance comment's status and footer agree for every       *)
(* report, the empty one included: the footer reads All Clear only when   *)
(* the status text is not Action Required.                                *)
(***************************************************************************)
C30_AllClearOnlyWhenNoActionRequired ==
    (/\ last.manager = "compliance"
     /\ last.result
     /\ Contains(last.body, <<"### All Clear!">>))
    => ~Contains(last.body, <<"**Status:** ", "Action Required">>)

(***************************************************************************)
(* C24.  The wait derived from a comment: an amount matched in hours      *)
(* gives amount * 60 minutes, in seconds the amount rounded up to whole   *)
(* minutes and at least 1, in minutes the amount itself; a comment in     *)
(* which no time expression matches gives 60; the result is then capped   *)
(* and never exceeds 360 minutes.                                         *)
(***************************************************************************)
\* The least number of whole minutes that hold so many seconds.
WholeMinutes(seconds) == CHOOSE k \in 0..seconds : 60 * k >= seconds /\ 60 * (k - 1) < seconds

Capped(minutes) == IF minutes > 360 THEN 360 ELSE minutes

C24_WaitTime ==
    app.fn = "wait_minutes"
    => LET words == app.args[1]
           at    == app.result.match
       IN  /\ app.result.wait_minutes <= 360
           /\ (\A i \in 1..Len(words) : ~AmountAt(words, i)) => at = 0
           /\ at = 0 => app.result.wait_minutes = 60
           /\ at # 0 =>
                 /\ AmountAt(words, at)
                 /\ LET amount == AmountValue[words[at]]
                    IN  /\ words[at + 1] = "hour"
                           => app.result.wait_minutes = Capped(amount * 60)
                        /\ words[at + 1] = "seconds"
                           => app.result.wait_minutes =
                                  Capped(IF amount = 0 THEN 1 ELSE WholeMinutes(amount))
                        /\ words[at + 1] = "minutes"
                           => app.result.wait_minutes = Capped(amount)

C24_Witness ==
    /\ app.fn = "wait_minutes"
    /\ app.args[1] = <<"retry", "after", "7", "hour">>
    /\ app.result.wait_minutes = 360

(***************************************************************************)
(* C25.  Two invocations for the same marker overlap on an existing       *)
(* managed comment: both have listed the comments before either writes.   *)
(* When both have completed, the comment holds the entry each of them     *)
(* appended.                                                              *)
(***************************************************************************)
Overlap(p, q) ==
    /\ p # q
    /\ pending[p].pc = "done" /\ pending[q].pc = "done"
    /\ pending[p].action_id = pending[q].action_id
    /\ pending[p].listing = pending[q].listing
    /\ pending[p].out.op = "update" /\ pending[q].out.op = "update"
    /\ pending[p].out.result /\ pending[q].out.result
    /\ pending[p].out.existing = pending[q].out.existing
    /\ StartsWith(pending[p].listing[pending[p].out.existing].body,
                  comment_marker(pending[p].action_id))

C25_OverlappingUpdatesKeepBothEntries ==
    \A p, q \in Procs :
        Overlap(p, q)
        => LET appended == pending[p].out.entries[Len(pending[p].out.entries)]
           IN  Contains(comments[pending[p].out.existing].body, appended)

(***************************************************************************)
(* C26.  A deployment call changes at most one comment of the pull        *)
(* request: the comment discovery selected, whose body is replaced and    *)
(* whose id is kept, or one comment appended to the list.  Every other    *)
(* comment keeps its id and body, and no comment is ever removed.         *)
(***************************************************************************)
C26_AtMostOneCommentChanged ==
    [][(/\ clock' = clock + 1
        /\ last'.manager = "deployment")
       => /\ Len(comments') >= Len(comments)
          /\ \A i \in 1..Len(comments) : comments'[i].id = comments[i].id
          /\ \/ comments' = comments
             \/ /\ last'.existing # 0
                /\ \E i \in OwnComments(last'.action_id) :
                       /\ comments[i].id = last'.existing
                       /\ comments' = [comments EXCEPT ![i].body = last'.body]
             \/ /\ last'.existing = 0
                /\ comments' = Append(comments, [id |-> last'.target, body |-> last'.body])
                /\ \A i \in 1..Len(comments) : comments[i].id # last'.target]_vars

C26_Witness ==
    /\ Len(comments) = 2
    /\ comments[1].body = managed_comment(<<"a">>, "started", Benign).body
    /\ last.manager = "deployment"
    /\ last.action_id = <<"b">>
    /\ last.op = "update"
    /\ last.result
    /\ last.target = comments[2].id
    /\ comments[2].body = last.body

(***************************************************************************)
(* C27.  Whatever the payloads, discovery run for one identity never      *)
(* selects a comment written for another identity: a body rendered under  *)
(* B's marker does not contain A's marker.  Stated for calls whose        *)
(* listing requests succeed.                                              *)
(***************************************************************************)
WrittenFor(body, action_id) == StartsWith(body, comment_marker(action_id))

C27_NoCrossIdentityDiscovery ==
    [][(/\ clock' = clock + 1
        /\ last'.manager = "deployment"
        /\ ~last.read_failed /\ ~last'.read_failed
        /\ last'.existing # 0)
       => \A i \in 1..Len(comments) :
              comments[i].id = last'.existing
              => \A other \in ActionIds \ {last'.action_id} :
                     ~WrittenFor(comments[i].body, other)]_vars

InProgress(entry) == Contains(entry, <<ENTRY_SEP, IN_PROGRESS, " ">>)

C29_OnlyLastEntryInProgress ==
    (/\ hist # <<>>
     /\ \A k \in 1..Len(hist) :
           /\ hist[k].manager = "deployment"
           /\ hist[k].action_id = hist[1].action_id
           /\ hist[k].op \in {"create", "update"}
           /\ hist[k].result)
    => \A i \in OwnComments(hist[1].action_id) :
           LET entries == timeline[comments[i].id]
           IN  /\ Contains(comments[i].body,
                           <<NL>> \o Join(entries, NL) \o <<NL, NL, RULE>>)
               /\ \A k \in 1..Len(entries) : InProgress(entries[k]) => k = Len(entries)

C29_Witness ==
    /\ Len(hist) = 2
    /\ hist[1].stage = "started" /\ hist[2].stage = "building"
    /\ hist[2].op = "update" /\ hist[2].result
    /\ Len(comments) = 1
    /\ Len(timeline[comments[1].id]) = 2
    /\ ~InProgress(timeline[comments[1].id][1])
    /\ InProgress(timeline[comments[1].id][2])
    /\ Contains(comments[1].body, timeline[comments[1].id][1])

====
